---- MODULE Spec2Model ----
(***************************************************************************)
(* Model of src/app.py: the process-wide SpatialAnalysisAPI object         *)
(* (spatial_analyzer), its four operations load_data,                      *)
(* create_spatial_weights, moran_analysis and spatial_regression, and the  *)
(* Flask routes that call them.                                            *)
(*                                                                         *)
(* A DataFrame is a record [n |-> row count, col |-> function from column  *)
(* name to the sequence of that column's cells].  Cells are integers.      *)
(***************************************************************************)
EXTENDS Integers, Sequences, FiniteSets, TLC

VARIABLES
    data,      \* spatial_analyzer.data : the held DataFrame, or None
    w,         \* spatial_analyzer.w    : the cached weight structure, or None
    results,   \* spatial_analyzer.results
    ret,       \* what the last completed call returned (with its arguments)
    upPc,      \* upload_file request in flight: "idle" | "loaded"
    upMsg,     \* upload_file's local (success, message) of load_data
    rdPc,      \* analysis request in flight: "idle" | "moran" | "regression"
    rdData     \* per analysis request: the DataFrame it read from self.data

vars == <<data, w, results, ret, upPc, upMsg, rdPc, rdData>>

\* Python's None (a record, so that it compares with frames and structures).
None == [none |-> TRUE]

----------------------------------------------------------------------------
(* Bounds of the model *)

MaxRows  == 3      \* tables of the store machine have 0..MaxRows rows
MaxCoord == 2      \* coordinates of the weight-builder inputs lie in 0..MaxCoord
MaxPts   == 3      \* the weight-builder inputs have 0..MaxPts points
MaxYear  == 1      \* year cells and requested year keys lie in 0..MaxYear

----------------------------------------------------------------------------
(* Small helpers *)

Range(s) == {s[i] : i \in 1..Len(s)}

RECURSIVE SumTo(_, _)
SumTo(f, n) == IF n = 0 THEN 0 ELSE f[n] + SumTo(f, n - 1)

RECURSIVE GCD(_, _)
GCD(a, b) == IF b = 0 THEN a ELSE GCD(b, a % b)

RECURSIVE LCMOf(_)
LCMOf(S) ==
    IF S = {} THEN 1
    ELSE LET x == CHOOSE v \in S : TRUE
             r == LCMOf(S \ {x})
         IN  (x * r) \div GCD(x, r)

SetMax(S) == CHOOSE x \in S : \A y \in S : y <= x
SetMin(S) == CHOOSE x \in S : \A y \in S : x <= y

Columns(t) == DOMAIN t.col

----------------------------------------------------------------------------
(* load_data *)

\* pd.Categorical(values).codes: each cell's position among the sorted
\* distinct cells of the column.
CategoricalCodes(s) ==
    [i \in 1..Len(s) |-> Cardinality({v \in Range(s) : v < s[i]})]

\* self.data['id'] = range(1, len(self.data) + 1)
AddId(t) ==
    [t EXCEPT !.col = ("id" :> [i \in 1..t.n |-> i]) @@ t.col]

\* if 'name' in self.data.columns: self.data['city'] = codes
AddCity(t) ==
    IF "name" \in Columns(t)
    THEN [t EXCEPT !.col = ("city" :> CategoricalCodes(t.col["name"])) @@ t.col]
    ELSE t

\* pd.read_excel / pd.read_csv: the reader parses only content of its own
\* format; anything else raises.
ReadOk(file, file_type) == file.format = file_type

\* The assignment of line 30/32: self.data is bound to the parsed frame as
\* soon as the read returns, before the id and city columns are added.
AfterRead(d, file, file_type) ==
    IF file_type \in {"excel", "csv"} THEN file.table ELSE d

\* load_data(file_path, file_type).  raises names the step after the read that
\* throws ("none", "id" or "city"); len(None) throws by itself when no frame
\* is held and file_type selects no reader.
\* Result: [data |-> the new self.data, ok, msg].
load_data(d, file, file_type, raises) ==
    IF file_type \in {"excel", "csv"} /\ ~ReadOk(file, file_type)
    THEN [data |-> d, ok |-> FALSE, msg |-> "load_failed"]
    ELSE LET r == AfterRead(d, file, file_type) IN
         IF r = None \/ raises = "id"
         THEN [data |-> r, ok |-> FALSE, msg |-> "load_failed"]
         ELSE IF raises = "city"
         THEN [data |-> AddId(r), ok |-> FALSE, msg |-> "load_failed"]
         ELSE [data |-> AddCity(AddId(r)), ok |-> TRUE, msg |-> "load_ok"]

----------------------------------------------------------------------------
(* create_spatial_weights *)

\* Squared Euclidean distance of two points.  Distances are kept squared so
\* that they stay integers; the order of distances is the order of squares.
Dist2(p, q) ==
    (p[1] - q[1]) * (p[1] - q[1]) + (p[2] - q[2]) * (p[2] - q[2])

\* coords = list(zip(self.data[lon_col], self.data[lat_col]))
Coords(t, lon_col, lat_col) ==
    [i \in 1..t.n |-> <<t.col[lon_col][i], t.col[lat_col][i]>>]

\* The distance the k = 2 query reports for a point without a second point:
\* infinity, written as a value no squared distance takes.
Infinity == -1

\* Distance from point i to its nearest other point (the k = 2 query of the
\* threshold helper).
NearestDist2(c, i) ==
    SetMin({Dist2(c[i], c[j]) : j \in (1..Len(c)) \ {i}})

\* The threshold taken as the smallest nearest-neighbour distance.
min_threshold_smallest(c) ==
    IF Len(c) < 2 THEN Infinity
    ELSE SetMin({NearestDist2(c, i) : i \in 1..Len(c)})

\* weights.min_threshold_distanceBand(coords): the largest nearest-neighbour
\* distance.
min_threshold_distanceBand(c) ==
    IF Len(c) < 2 THEN Infinity
    ELSE SetMax({NearestDist2(c, i) : i \in 1..Len(c)})

\* The entries the distance band stores: pairs within the threshold whose
\* weight dist^alpha (alpha = -2.0) is finite.  A zero distance (the diagonal,
\* or a duplicated point) gives an infinite weight, which is dropped.
BandPairs(c, threshold2) ==
    {p \in (1..Len(c)) \X (1..Len(c)) :
        /\ Dist2(c[p[1]], c[p[2]]) > 0
        /\ (threshold2 = Infinity \/ Dist2(c[p[1]], c[p[2]]) <= threshold2)}

\* weights.DistanceBand.from_array(coords, threshold, alpha=-2.0, binary=False).
\* d2[<<i, j>>] is the squared distance of a stored pair: its weight is 1/d2.
\* transform is the W object's weights transformation, "O" (original) as built.
DistanceBand(c, threshold2) ==
    [coords     |-> c,
     threshold2 |-> threshold2,
     d2         |-> [p \in BandPairs(c, threshold2) |-> Dist2(c[p[1]], c[p[2]])],
     transform  |-> "O"]

\* The build with self.w cleared before the construction is attempted.
create_spatial_weights_clearing(d, wOld, lat_col, lon_col, raises) ==
    IF \/ d = None
       \/ "geometry" \in Columns(d)
       \/ ~({lon_col, lat_col} \subseteq Columns(d))
       \/ d.n = 0
       \/ raises
    THEN [w |-> None, ok |-> FALSE, msg |-> "weights_failed"]
    ELSE LET c == Coords(d, lon_col, lat_col) IN
         [w   |-> DistanceBand(c, min_threshold_distanceBand(c)),
          ok  |-> TRUE,
          msg |-> "weights_ok"]

\* create_spatial_weights(lat_col, lon_col).  A frame read by pandas holds
\* text or numbers in a 'geometry' column, never point objects, so point.x
\* throws.  raises: the weight construction itself throws.
\* Result: [w |-> the new self.w, ok, msg].
create_spatial_weights(d, wOld, lat_col, lon_col, raises) ==
    IF \/ d = None
       \/ "geometry" \in Columns(d)
       \/ ~({lon_col, lat_col} \subseteq Columns(d))
       \/ d.n = 0
       \/ raises
    THEN [w |-> wOld, ok |-> FALSE, msg |-> "weights_failed"]
    ELSE LET c == Coords(d, lon_col, lat_col) IN
         [w   |-> DistanceBand(c, min_threshold_distanceBand(c)),
          ok  |-> TRUE,
          msg |-> "weights_ok"]

\* The stored neighbours of observation i.
Neighbors(ws, i) == {j \in 1..Len(ws.coords) : <<i, j>> \in DOMAIN ws.d2}

\* Weights as integers over the common denominator Scale(ws): the weight of a
\* stored pair is 1/d2 = ScaledWeight / Scale.
Scale(ws) == LCMOf({ws.d2[p] : p \in DOMAIN ws.d2})
ScaledWeight(ws, i, j) ==
    IF <<i, j>> \in DOMAIN ws.d2 THEN Scale(ws) \div ws.d2[<<i, j>>] ELSE 0

\* weights.lag_spatial(w, x) for one column x: row i holds the sum over the
\* neighbours n of w[i][n] * x[n], as the fraction <<numerator, denominator>>.
\* Under the row-standardised transform "R" each weight is divided by its row
\* sum (a row without neighbours stays zero).
LagSpatial(ws, x) ==
    [i \in 1..Len(ws.coords) |->
        LET num == SumTo([j \in 1..Len(ws.coords) |-> ScaledWeight(ws, i, j) * x[j]],
                         Len(ws.coords))
            row == SumTo([j \in 1..Len(ws.coords) |-> ScaledWeight(ws, i, j)],
                         Len(ws.coords))
        IN  IF ws.transform = "R"
            THEN (IF row = 0 THEN <<0, 1>> ELSE <<num, row>>)
            ELSE <<num, Scale(ws)>>]

----------------------------------------------------------------------------
(* moran_analysis *)

\* A group key is None or an integer year v, written [v |-> v].
Key(v) == [v |-> v]

\* Python truthiness of a group key: None and 0 are false.
Truthy(year) == year # None /\ year.v # 0

Digit(d) ==
    CASE d = 0 -> "0" [] d = 1 -> "1" [] d = 2 -> "2" [] d = 3 -> "3"
      [] d = 4 -> "4" [] d = 5 -> "5" [] d = 6 -> "6" [] d = 7 -> "7"
      [] d = 8 -> "8" [] d = 9 -> "9"

\* str(v) of a non-negative integer.
RECURSIVE PyStr(_)
PyStr(v) == IF v < 10 THEN Digit(v) ELSE PyStr(v \div 10) \o Digit(v % 10)

\* results[str(year) if year else 'all']
ResultKey(year) == IF Truthy(year) THEN PyStr(year.v) ELSE "all"

\* Series.unique(): the distinct cells in order of first appearance.
RECURSIVE Unique(_)
Unique(s) ==
    IF s = <<>> THEN <<>>
    ELSE LET r == Unique(SubSeq(s, 1, Len(s) - 1)) IN
         IF s[Len(s)] \in Range(r) THEN r ELSE Append(r, s[Len(s)])

\* years = self.data['year'].unique() if 'year' in self.data.columns else [None]
DefaultYears(d) ==
    IF "year" \in Columns(d)
    THEN LET u == Unique(d.col["year"]) IN [i \in 1..Len(u) |-> Key(u[i])]
    ELSE <<None>>

\* The row numbers of data_subset, in order.
RECURSIVE RowsUpTo(_, _, _)
RowsUpTo(d, year, k) ==
    IF k = 0 THEN <<>>
    ELSE LET r == RowsUpTo(d, year, k - 1) IN
         IF year = None \/ d.col["year"][k] = year.v THEN Append(r, k) ELSE r

DataSubset(d, year) == RowsUpTo(d, year, d.n)

\* The loop of lines 69-82 over the remaining years.  acc.res is the local
\* results mapping; acc.touched says whether esda.Moran has been entered.
\* esda.Moran(y, w) first sets w.transform = 'r' on the object it is given
\* (its default transformation, applied in place) and then computes the
\* statistic, which throws when y and w differ in length and, dividing by
\* n - 1, over a single observation.  A float result is kept as the vector it
\* was computed from.
RECURSIVE MoranLoop(_, _, _, _, _)
MoranLoop(d, ws, variable, years, acc) ==
    IF years = <<>> THEN acc
    ELSE LET year == Head(years) IN
         IF \/ d = None
            \/ year # None /\ "year" \notin Columns(d)
            \/ variable \notin Columns(d)
            \/ ws = None
         THEN [acc EXCEPT !.ok = FALSE]
         ELSE LET rows == DataSubset(d, year)
                  y    == [i \in 1..Len(rows) |-> d.col[variable][rows[i]]]
              IN  IF Len(y) # Len(ws.coords) \/ Len(y) < 2
                  THEN [acc EXCEPT !.ok = FALSE, !.touched = TRUE]
                  ELSE MoranLoop(d, ws, variable, Tail(years),
                           [acc EXCEPT !.touched = TRUE,
                                       !.res = (ResultKey(year) :> [y |-> y]) @@ @])

\* The structure self.w refers to once esda.Moran has set its transform.
RowStandardized(ws) == [ws EXCEPT !.transform = "R"]

\* moran_analysis(variable, years).  hasYears tells whether the caller passed
\* a list (years is not None).
\* Result: [w |-> self.w afterwards, ok, payload |-> results or a message].
moran_analysis(d, ws, variable, hasYears, years) ==
    IF d = None /\ ~hasYears
    THEN [w |-> ws, ok |-> FALSE, payload |-> "moran_failed"]
    ELSE LET ys  == IF hasYears THEN years ELSE DefaultYears(d)
             out == MoranLoop(d, ws, variable, ys,
                              [ok |-> TRUE, touched |-> FALSE, res |-> <<>>])
             w2  == IF out.touched THEN RowStandardized(ws) ELSE ws
         IN  IF out.ok
             THEN [w |-> w2, ok |-> TRUE, payload |-> out.res]
             ELSE [w |-> w2, ok |-> FALSE, payload |-> "moran_failed"]

----------------------------------------------------------------------------
(* spatial_regression *)

\* A matrix is the sequence of its columns; a column is the sequence of its
\* cells.

Ones(n) == [i \in 1..n |-> 1]

\* A column statsmodels takes for a constant: all cells equal and nonzero.
IsNonzeroConst(c) == Len(c) > 0 /\ c[1] # 0 /\ \A i \in 1..Len(c) : c[i] = c[1]

\* sm.add_constant(X) with its defaults (prepend=True, has_constant='skip'):
\* a matrix that already holds a nonzero constant column is returned as it is,
\* otherwise a column of ones is put in front.
add_constant(X, n) ==
    IF \E j \in 1..Len(X) : IsNonzeroConst(X[j]) THEN X ELSE <<Ones(n)>> \o X

\* X_sdm = np.hstack([X, weights.lag_spatial(self.w, X[:, 1:])])
DurbinDesign(ws, X) ==
    X \o [j \in 1..(Len(X) - 1) |-> LagSpatial(ws, X[j + 1])]

\* The matrix handed to the estimator for each model family.
DesignMatrix(ws, X, model_type) ==
    IF model_type = "sdm" THEN DurbinDesign(ws, X) ELSE X

\* The names the result loop of lines 111-112 runs over.  The conditional
\* expression binds weaker than +, so the whole list is the 'sdm' branch and
\* the other families get the empty list.
CoefficientNames(independent_vars, model_type) ==
    IF model_type = "sdm"
    THEN <<"const">> \o independent_vars
         \o [j \in 1..Len(independent_vars) |-> "W_" \o independent_vars[j]]
    ELSE <<>>

\* len(model.betas) of a fitted ML_Lag / ML_Error: one coefficient per design
\* column and, last, the spatial parameter (rho or lambda).
NumBetas(D) == Len(D) + 1

\* coefficients: one record per name whose index is below len(model.betas).
Coefficients(names, nbetas) ==
    [i \in 1..(IF Len(names) < nbetas THEN Len(names) ELSE nbetas) |-> names[i]]

\* spatial_regression(dependent_var, independent_vars, model_type).
\* fitRaises: the estimator throws (singular design, no convergence, ...); it
\* always throws without a weight structure, with one of another length, and
\* with fewer rows than design columns.
\* Result: [ok, payload |-> the results record or a message, design |-> the
\* matrix handed to the estimator, <<>> when none was built].
spatial_regression(d, ws, dependent_var, independent_vars, model_type, fitRaises) ==
    IF \/ d = None
       \/ dependent_var \notin Columns(d)
       \/ ~(Range(independent_vars) \subseteq Columns(d))
       \/ d.n = 0
    THEN [ok |-> FALSE, payload |-> "regression_failed", design |-> <<>>]
    ELSE LET X == add_constant([j \in 1..Len(independent_vars) |->
                                    d.col[independent_vars[j]]], d.n)
         IN
         IF model_type \notin {"sar", "sem", "sdm"}
         THEN [ok |-> FALSE, payload |-> "unsupported_model_type", design |-> <<>>]
         ELSE IF ws = None \/ Len(ws.coords) # d.n
         THEN [ok |-> FALSE, payload |-> "regression_failed", design |-> <<>>]
         ELSE LET D == DesignMatrix(ws, X, model_type) IN
              IF fitRaises \/ d.n < Len(D)
              THEN [ok |-> FALSE, payload |-> "regression_failed", design |-> D]
              ELSE [ok      |-> TRUE,
                    payload |-> [coefficients |->
                                     Coefficients(CoefficientNames(independent_vars,
                                                                   model_type),
                                                  NumBetas(D)),
                                 model_type   |-> model_type],
                    design  |-> D]

----------------------------------------------------------------------------
(* The files a client can send, and the arguments of the requests *)

\* A table of n rows: points on a line (lon = 0, 1, 2, ...; lat = 0) under
\* the default column names, or a 'geometry' column, or no location at all; a
\* 'year' column that is absent, all 0, or alternating 1, 0 (then with a
\* 'name' column); a dependent column y, a varying column x1 and a
\* constant-valued column x2.
MkTable(n, coordKind, yearKind) ==
    [n   |-> n,
     col |-> ("y"  :> [i \in 1..n |-> i])
          @@ ("x1" :> [i \in 1..n |-> (2 * i) % 3])
          @@ ("x2" :> [i \in 1..n |-> 5])
          @@ (CASE coordKind = "lonlat"   -> ("lon" :> [i \in 1..n |-> i - 1])
                                          @@ ("lat" :> [i \in 1..n |-> 0])
                [] coordKind = "geometry" -> ("geometry" :> [i \in 1..n |-> i])
                [] OTHER                  -> <<>>)
          @@ (CASE yearKind = "zero"  -> ("year" :> [i \in 1..n |-> 0])
                [] yearKind = "mixed" -> ("year" :> [i \in 1..n |-> i % 2])
                                      @@ ("name" :> [i \in 1..n |-> (i + 1) % 2])
                [] OTHER              -> <<>>)]

\* Tables with coordinates of every size, with each kind of 'year' column, and
\* two tables without usable coordinates.
Tables ==
    {MkTable(n, "lonlat", yk) : n \in 0..MaxRows, yk \in {"none", "zero", "mixed"}}
    \cup {MkTable(2, "geometry", "none"), MkTable(2, "none", "none")}

\* An uploaded file: the extension of its name, the format of its content and
\* the table a reader of that format parses from it.  Beside the well-formed
\* .csv files there is a well-formed spreadsheet, a spreadsheet named .csv and
\* a file no reader parses.
Files ==
    {[ext |-> "csv", format |-> "csv", table |-> t] : t \in Tables}
    \cup {[ext |-> "xlsx", format |-> "excel", table |-> MkTable(2, "lonlat", "none")],
          [ext |-> "csv", format |-> "excel", table |-> MkTable(1, "lonlat", "none")],
          [ext |-> "csv", format |-> "other", table |-> MkTable(0, "none", "none")]}

\* file_type = 'excel' if filename.lower().endswith(('.xlsx', '.xls')) else 'csv'
FileTypeOf(file) == IF file.ext \in {"xlsx", "xls"} THEN "excel" ELSE "csv"

FileTypes    == {"excel", "csv", "json"}
LoadRaises   == {"none", "id", "city"}
Variables    == {"y", "missing"}
YearKeys     == {None} \cup {Key(v) : v \in 0..MaxYear}
YearLists    == {<<>>} \cup {<<a>> : a \in YearKeys}
                \cup {<<a, b>> : a \in YearKeys, b \in YearKeys}
IndepLists   == {<<>>, <<"x1">>, <<"x2">>, <<"x1", "x2">>, <<"missing">>}
ModelTypes   == {"sar", "sem", "sdm", "bogus"}

----------------------------------------------------------------------------
(* The store machine: every call runs to completion before the next *)

Init ==
    /\ data = None
    /\ w = None
    /\ results = <<>>
    /\ ret = [op |-> "init"]
    /\ upPc = "idle"
    /\ upMsg = None
    /\ rdPc = "idle"
    /\ rdData = None

Requests == <<upPc, upMsg, rdPc, rdData>>

\* spatial_analyzer.load_data(file_path, file_type)
LoadData ==
    \E file \in Files, file_type \in FileTypes, raises \in LoadRaises :
        LET r == load_data(data, file, file_type, raises) IN
        /\ data' = r.data
        /\ ret' = [op |-> "load", ok |-> r.ok, msg |-> r.msg]
        /\ UNCHANGED <<w, results, Requests>>

\* spatial_analyzer.create_spatial_weights()
CreateSpatialWeights ==
    \E raises \in BOOLEAN :
        LET r == create_spatial_weights(data, w, "lat", "lon", raises) IN
        /\ w' = r.w
        /\ ret' = [op |-> "build", ok |-> r.ok, msg |-> r.msg]
        /\ UNCHANGED <<data, results, Requests>>

\* POST /api/upload without a file part or with an empty file name
UploadNoFile ==
    /\ ret' = [op |-> "upload", ok |-> FALSE, msg |-> "no_file"]
    /\ UNCHANGED <<data, w, results, Requests>>

\* POST /api/upload: load_data, then on success create_spatial_weights, whose
\* result is dropped.
UploadFile ==
    \E file \in Files, raises \in LoadRaises, buildRaises \in BOOLEAN :
        LET r == load_data(data, file, FileTypeOf(file), raises)
            b == create_spatial_weights(r.data, w, "lat", "lon", buildRaises)
        IN
        /\ data' = r.data
        /\ w' = IF r.ok THEN b.w ELSE w
        /\ ret' = [op |-> "upload", ok |-> r.ok, msg |-> r.msg]
        /\ UNCHANGED <<results, Requests>>

\* POST /api/moran
MoranAnalysis ==
    \E variable \in Variables, hasYears \in BOOLEAN, years \in YearLists :
        LET r == moran_analysis(data, w, variable, hasYears, years) IN
        /\ w' = r.w
        /\ ret' = [op |-> "moran", ok |-> r.ok, payload |-> r.payload,
                   years |-> IF hasYears THEN years
                             ELSE IF data = None THEN <<>> ELSE DefaultYears(data)]
        /\ UNCHANGED <<data, results, Requests>>

\* POST /api/regression
SpatialRegression ==
    \E dependent_var \in Variables, independent_vars \in IndepLists,
       model_type \in ModelTypes, fitRaises \in BOOLEAN :
        LET r == spatial_regression(data, w, dependent_var, independent_vars,
                                    model_type, fitRaises) IN
        /\ ret' = [op |-> "regression", ok |-> r.ok, payload |-> r.payload,
                   independent_vars |-> independent_vars,
                   model_type |-> model_type, design |-> r.design]
        /\ UNCHANGED <<data, w, results, Requests>>

\* GET /api/data_info
GetDataInfo ==
    /\ ret' = [op |-> "data_info", ok |-> data # None]
    /\ UNCHANGED <<data, w, results, Requests>>

Next ==
    \/ LoadData
    \/ CreateSpatialWeights
    \/ UploadNoFile
    \/ UploadFile
    \/ MoranAnalysis
    \/ SpatialRegression
    \/ GetDataInfo

Spec == Init /\ [][Next]_vars

----------------------------------------------------------------------------
(* The weight builder on arbitrary point sets *)

GridPoints == (0..MaxCoord) \X (0..MaxCoord)

PointSeqs == UNION {[1..n -> GridPoints] : n \in 0..MaxPts}

\* The frame load_data holds after reading a file with the columns lon, lat.
PointTable(c) ==
    AddCity(AddId([n   |-> Len(c),
                   col |-> ("lon" :> [i \in 1..Len(c) |-> c[i][1]])
                        @@ ("lat" :> [i \in 1..Len(c) |-> c[i][2]])]))

InitWeights ==
    /\ data \in {PointTable(c) : c \in PointSeqs}
    /\ w = None
    /\ results = <<>>
    /\ ret = [op |-> "init"]
    /\ upPc = "idle"
    /\ upMsg = None
    /\ rdPc = "idle"
    /\ rdData = None

NextWeights == CreateSpatialWeights

SpecWeights == InitWeights /\ [][NextWeights]_vars

----------------------------------------------------------------------------
(* Concurrent requests: the development server answers each request on a   *)
(* thread of its own, and all of them use the one spatial_analyzer.  An    *)
(* upload is two steps (load_data, then create_spatial_weights); an        *)
(* analysis reads self.data first and self.w afterwards.                   *)

\* upload_file up to the return of load_data
UploadLoad ==
    /\ upPc = "idle"
    /\ \E file \in Files, raises \in LoadRaises :
        LET r == load_data(data, file, FileTypeOf(file), raises) IN
        /\ data' = r.data
        /\ upMsg' = IF r.ok THEN r.msg ELSE None
        /\ upPc' = IF r.ok THEN "loaded" ELSE "idle"
        /\ ret' = IF r.ok THEN ret
                  ELSE [op |-> "upload", ok |-> FALSE, msg |-> r.msg]
        /\ UNCHANGED <<w, results, rdPc, rdData>>

\* upload_file from create_spatial_weights to its response
UploadBuild ==
    /\ upPc = "loaded"
    /\ \E buildRaises \in BOOLEAN :
        /\ w' = create_spatial_weights(data, w, "lat", "lon", buildRaises).w
        /\ ret' = [op |-> "upload", ok |-> TRUE, msg |-> upMsg]
        /\ upPc' = "idle"
        /\ upMsg' = None
        /\ UNCHANGED <<data, results, rdPc, rdData>>

\* An analysis request reads self.data (lines 67-75, 94-95).
AnalysisRead ==
    /\ rdPc = "idle"
    /\ \E kind \in {"moran", "regression"} :
        /\ rdPc' = kind
        /\ rdData' = data
        /\ UNCHANGED <<data, w, results, ret, upPc, upMsg>>

\* The Moran request goes on with self.w (line 76) and answers.
MoranFinish ==
    /\ rdPc = "moran"
    /\ \E variable \in Variables :
        LET r == moran_analysis(rdData, w, variable, FALSE, <<>>) IN
        /\ w' = r.w
        /\ ret' = [op |-> "moran", ok |-> r.ok, payload |-> r.payload]
        /\ rdPc' = "idle"
        /\ rdData' = None
        /\ UNCHANGED <<data, results, upPc, upMsg>>

\* The regression request goes on with self.w (lines 99-105) and answers.
RegressionFinish ==
    /\ rdPc = "regression"
    /\ \E model_type \in ModelTypes, fitRaises \in BOOLEAN :
        LET r == spatial_regression(rdData, w, "y", <<"x1">>, model_type,
                                    fitRaises) IN
        /\ ret' = [op |-> "regression", ok |-> r.ok, payload |-> r.payload,
                   model_type |-> model_type]
        /\ rdPc' = "idle"
        /\ rdData' = None
        /\ UNCHANGED <<data, w, results, upPc, upMsg>>

NextConcurrent ==
    \/ UploadLoad
    \/ UploadBuild
    \/ AnalysisRead
    \/ MoranFinish
    \/ RegressionFinish

SpecConcurrent == Init /\ [][NextConcurrent]_vars

----------------------------------------------------------------------------
(* Claims settled on the store machine *)

FailureMessages ==
    {"load_failed", "weights_failed", "moran_failed", "regression_failed",
     "unsupported_model_type", "no_file"}

\* C1: whenever a weight structure is held, it was built from the coordinates
\* of the table that is held now: a successful load never leaves the weights
\* of an earlier table in the cache.
CE_C1_WeightsMatchTable ==
    w # None =>
        /\ data # None
        /\ {"lon", "lat"} \subseteq Columns(data)
        /\ w.coords = Coords(data, "lon", "lat")

\* C2: a load that reports failure (called directly or through the upload
\* route) leaves the held table exactly as it was.
CE_C2_FailedLoadKeepsTable ==
    [][(ret'.op \in {"load", "upload"} /\ ~ret'.ok) => data' = data]_vars

\* C3: a weight build that reports failure leaves the cached weight structure
\* and the table exactly as they were.
Thm_C3_FailedBuildKeepsWeights ==
    [][(ret'.op = "build" /\ ~ret'.ok) => (w' = w /\ data' = data)]_vars

\* A build has failed, for want of coordinate columns, while a weight
\* structure of an earlier table was cached.
Wit_C3_FailedBuildWithPriorWeights ==
    /\ ret.op = "build" /\ ~ret.ok
    /\ w # None
    /\ data # None /\ "lon" \notin Columns(data)

\* C6: a regression request with an unrecognised model family fails with the
\* unsupported-model-type message, whatever the store holds and whatever
\* columns are named, and changes nothing.
CE_C6_BogusModelTypeReported ==
    [][(ret'.op = "regression" /\ ret'.model_type \notin {"sar", "sem", "sdm"})
        => /\ ~ret'.ok
           /\ ret'.payload = "unsupported_model_type"
           /\ data' = data /\ w' = w /\ results' = results]_vars

\* C10: a Moran or regression request, succeeding or failing, leaves the
\* table, the cached weight structure and the stored results as they were,
\* and a failing one returns a message only.
CE_C10_AnalysesReadOnly ==
    [][ret'.op \in {"moran", "regression"}
        => /\ data' = data /\ w' = w /\ results' = results
           /\ (~ret'.ok => ret'.payload \in FailureMessages)]_vars

\* C4: no analysis step runs between the moment an upload has replaced the
\* table and the moment it installs the weight structure of that table.
CE_C4_LoadExcludesReads ==
    [][upPc = "loaded" => (rdPc' = rdPc /\ rdData' = rdData)]_vars

\* C5: a successful regression over k independent variables returns the
\* records const, v1..vk for the lag and error families and const, v1..vk,
\* W_v1..W_vk for the Durbin family.
CE_C5_CoefficientNames ==
    (ret.op = "regression" /\ ret.ok) =>
        LET iv == ret.independent_vars IN
        ret.payload.coefficients =
            <<"const">> \o iv
            \o (IF ret.model_type = "sdm"
                THEN [j \in 1..Len(iv) |-> "W_" \o iv[j]]
                ELSE <<>>)

\* C7: the Durbin design matrix over k independent variables has 1 + 2k
\* columns: the ones, the k columns of the table in order, and for each of
\* them the weight structure applied to it.
CE_C7_DurbinDesign ==
    (ret.op = "regression" /\ ret.model_type = "sdm" /\ Len(ret.design) > 0) =>
        LET iv == ret.independent_vars
            k  == Len(iv)
            D  == ret.design
        IN  /\ Len(D) = 1 + 2 * k
            /\ D[1] = Ones(data.n)
            /\ \A j \in 1..k :
                /\ D[1 + j] = data.col[iv[j]]
                /\ D[1 + k + j] = LagSpatial(w, data.col[iv[j]])

\* Some distance t leaves no observation of c without another within t.
NoneIsolated(c, t) ==
    \A i \in 1..Len(c) :
        \E j \in (1..Len(c)) \ {i} : Dist2(c[i], c[j]) <= t

AllDistinct(c) ==
    \A i \in 1..Len(c) : \A j \in 1..Len(c) : i # j => c[i] # c[j]

CE_C9_OneRecordPerKey ==
    (ret.op = "moran" /\ ret.ok) =>
        LET keys == Range(ret.years) IN
        /\ Cardinality(DOMAIN ret.payload) = Cardinality(keys)
        /\ \A k \in keys :
            (IF k = None THEN "all" ELSE PyStr(k.v)) \in DOMAIN ret.payload
        /\ "all" \in DOMAIN ret.payload => None \in keys

====
